---- MODULE Spec2Model ----
(***************************************************************************)
(* Morpho L-systems: the string rewriting engine LSystem.generate and the  *)
(* turtle interpreters LSystem.interpret_2d / LSystem.interpret_3d of      *)
(* package/extra/python/morpho_lsystems.py.                                *)
(*                                                                         *)
(* Strings are sequences of one-character strings.  Floats are fixed-point *)
(* integers in units of 1/Scale, rounded half away from zero.              *)
(***************************************************************************)
EXTENDS Integers, Sequences, FiniteSets, TLC

VARIABLES
    call,            \* which method of LSystem is running
    pc,              \* position inside the running method
    axiom,           \* self.axiom
    rules,           \* self.rules: key string -> replacement string
    iterations,      \* argument of generate
    current,         \* generate: current
    next_string,     \* generate: next_string
    passes,          \* generate: passes of the outer loop completed
    j,               \* generate: index of the next char of current
    angle,           \* self.angle, in degrees
    commands,        \* interpret_*: the part of `commands` read so far
    start_point,     \* interpret_*: argument start_point
    initial_angle,   \* interpret_2d: argument initial_angle, in degrees
    initial_direction, \* interpret_3d: argument initial_direction
    length,          \* interpret_*: argument length
    length_decay,    \* interpret_*: argument length_decay, <<numerator, denominator>>
    turtle,          \* interpret_*: the local variables of the running interpreter
    rng,             \* the state of the generator of module random
    rd_args,         \* reaction_diffusion: the arguments of the running call
    A,               \* reaction_diffusion: A
    B,               \* reaction_diffusion: B
    newA,            \* reaction_diffusion: newA
    newB,            \* reaction_diffusion: newB
    loop,            \* reaction_diffusion: the loop counters
    returned,        \* the calls of reaction_diffusion made so far, with their outcomes
    entry,           \* the module-level function called, with its arguments
    outcome          \* what that function raised or returned

genVars == <<axiom, rules, iterations, current, next_string, passes, j>>

argVars == <<angle, start_point, initial_angle, initial_direction, length, length_decay>>

rdVars == <<rng, rd_args, A, B, newA, newB, loop, returned>>

cfgVars == <<entry, outcome>>

vars == <<call, pc, genVars, argVars, commands, turtle, rdVars, cfgVars>>

(***************************************************************************)
(* Bounds                                                                  *)
(***************************************************************************)
MaxIter == 3

\* every command string of at most MaxLen characters is interpreted
MaxLen == 3

(***************************************************************************)
(* Numbers, points and vectors                                             *)
(***************************************************************************)
\* a float f is the integer nearest to f * Scale
Scale == 1000

\* n / d, rounded to the nearest integer, halves away from zero
RoundDiv(n, d) ==
    IF n >= 0 THEN (2 * n + d) \div (2 * d)
    ELSE -((2 * (-n) + d) \div (2 * d))

\* the float product a * b
Mul(a, b) == RoundDiv(a * b, Scale)

\* math.cos(math.radians(deg)), deg a multiple of 30
Cos(deg) ==
    CASE deg % 360 = 0   -> 1000
      [] deg % 360 = 30  -> 866
      [] deg % 360 = 60  -> 500
      [] deg % 360 = 90  -> 0
      [] deg % 360 = 120 -> -500
      [] deg % 360 = 150 -> -866
      [] deg % 360 = 180 -> -1000
      [] deg % 360 = 210 -> -866
      [] deg % 360 = 240 -> -500
      [] deg % 360 = 270 -> 0
      [] deg % 360 = 300 -> 500
      [] deg % 360 = 330 -> 866

\* math.sin(math.radians(deg)), deg a multiple of 30
Sin(deg) == Cos(deg - 90)

\* Point.ByCoordinates / Vector.ByCoordinates
ByCoordinates(X, Y, Z) == <<X, Y, Z>>

\* Line.ByStartPointEndPoint
ByStartPointEndPoint(start, end) == <<start, end>>

Origin == ByCoordinates(0, 0, 0)

\* initial_direction = None
None == "None"

\* the largest r with r * r <= n
ISqrt(n) == CHOOSE r \in 0..(4 * Scale) : r * r <= n /\ n < (r + 1) * (r + 1)

\* Vector.Normalized
Normalized(v) ==
    LET norm == ISqrt(v[1] * v[1] + v[2] * v[2] + v[3] * v[3])
    IN  ByCoordinates(RoundDiv(v[1] * Scale, norm),
                      RoundDiv(v[2] * Scale, norm),
                      RoundDiv(v[3] * Scale, norm))

\* initial_angle: float = 90
DefaultInitialAngle == 90

\* the value of `turtle` while no interpreter runs
NoTurtle == [raised |-> "none"]

(***************************************************************************)
(* Arguments of the interpreters                                           *)
(***************************************************************************)
Angles == {90, 60}

Decays == {<<1, 1>>, <<1, 2>>}

Lengths == {Scale}

StartPoints == {Origin, ByCoordinates(2 * Scale, -Scale, 3 * Scale)}

InitialAngles == {DefaultInitialAngle, 0}

InitialDirections == {None, ByCoordinates(2 * Scale, 0, 0)}

\* the characters a command string is made of: the commands of both
\* interpreters and X, a symbol of neither
Symbols == {"F", "G", "f", "+", "-", "[", "]", "|", "&", "^", "\\", "/", "X"}

\* the characters of a command string: the symbols above and, under
\* generate_2d / generate_3d, those of the string lsystem.generate returned
Alphabet == Symbols \cup {current[i] : i \in DOMAIN current}

Square == <<"F", "+", "F", "+", "F", "+", "F">>

Nested == <<"[", "+", "[", "F", "]", "f", "]", "G">>

Nested3D == <<"[", "&", "[", "/", "F", "]", "f", "]", "G">>

\* command strings longer than MaxLen that are interpreted as well
Examples == {Square, Nested, Nested3D}

IsPrefix(s, t) == Len(s) <= Len(t) /\ SubSeq(t, 1, Len(s)) = s

\* the strings interpreted: all of length <= MaxLen, and the prefixes of Examples
IsInput(s) ==
    IF entry.fn = "none"
    THEN Len(s) <= MaxLen \/ \E e \in Examples : IsPrefix(s, e)
    ELSE IsPrefix(s, current)

\* the values of entry and outcome while no module-level function is called
NoConvenience ==
    /\ entry = [fn |-> "none"]
    /\ outcome = [raised |-> "none"]

\* the values of the variables of reaction_diffusion while it is not called
NoReactionDiffusion ==
    /\ rng = 0
    /\ rd_args = <<>>
    /\ A = <<>>
    /\ B = <<>>
    /\ newA = <<>>
    /\ newB = <<>>
    /\ loop = <<>>
    /\ returned = <<>>

(***************************************************************************)
(* Grammars                                                                *)
(***************************************************************************)
NoRules == [k \in {} |-> <<>>]

FibRules == (<<"A">> :> <<"A", "B">>) @@ (<<"B">> :> <<"A">>)

CyclicRules == (<<"A">> :> <<"B">>) @@ (<<"B">> :> <<"A">>)

EraseRules == (<<"A">> :> <<>>)

FixedRules == (<<"A">> :> <<"A">>)

BranchRules == (<<"F">> :> <<"F", "[", "+", "F", "]">>)

RuleMaps == {NoRules, FibRules, CyclicRules, EraseRules, FixedRules, BranchRules}

Axioms == {<<>>, <<"A">>, <<"A", "B">>, <<"B", "X", "A">>, <<"F">>}

(***************************************************************************)
(* LSystem.generate                                                        *)
(***************************************************************************)
\* self.rules.get(char, char)
RulesGetDropsUnknown(r, char) ==
    IF <<char>> \in DOMAIN r THEN r[<<char>>] ELSE <<>>

RulesGet(r, char) ==
    IF <<char>> \in DOMAIN r THEN r[<<char>>] ELSE <<char>>

\* next_string += replacement
ConcatPrepends(s, rep) == rep \o s

Concat(s, rep) == s \o rep

\* for _ in range(iterations): is there another pass after `done` passes
RangeHasNextInclusive(done, n) == done <= n

RangeHasNextStopsWhenEmpty(done, n) == done < n /\ current # <<>>

RangeHasNext(done, n) == done < n

InitGenerate ==
    /\ call = "generate"
    /\ pc = "call"
    /\ axiom \in Axioms
    /\ rules \in RuleMaps
    /\ iterations \in 0..MaxIter
    /\ current = <<>>
    /\ next_string = <<>>
    /\ passes = 0
    /\ j = 1
    /\ angle \in Angles
    /\ commands = <<>>
    /\ start_point = Origin
    /\ initial_angle = DefaultInitialAngle
    /\ initial_direction = None
    /\ length = Scale
    /\ length_decay = <<1, 1>>
    /\ turtle = NoTurtle
    /\ NoReactionDiffusion
    /\ NoConvenience

\* current = self.axiom
GenerateCall ==
    /\ call = "generate" /\ pc = "call"
    /\ current' = axiom
    /\ passes' = 0
    /\ pc' = "for"
    /\ UNCHANGED <<call, axiom, rules, iterations, next_string, j, argVars, commands, turtle, rdVars, cfgVars>>

\* for _ in range(iterations): next_string = ""
GenerateBeginPass ==
    /\ call = "generate" /\ pc = "for"
    /\ RangeHasNext(passes, iterations)
    /\ next_string' = <<>>
    /\ j' = 1
    /\ pc' = "chars"
    /\ UNCHANGED <<call, axiom, rules, iterations, current, passes, argVars, commands, turtle, rdVars, cfgVars>>

\* for char in current: next_string += self.rules.get(char, char)
GenerateChar ==
    /\ call = "generate" /\ pc = "chars"
    /\ j <= Len(current)
    /\ next_string' = Concat(next_string, RulesGet(rules, current[j]))
    /\ j' = j + 1
    /\ UNCHANGED <<call, pc, axiom, rules, iterations, current, passes, argVars, commands, turtle, rdVars, cfgVars>>

\* current = next_string
GenerateEndPass ==
    /\ call = "generate" /\ pc = "chars"
    /\ j > Len(current)
    /\ current' = next_string
    /\ passes' = passes + 1
    /\ pc' = "for"
    /\ UNCHANGED <<call, axiom, rules, iterations, next_string, j, argVars, commands, turtle, rdVars, cfgVars>>

\* return current
GenerateReturn ==
    /\ call = "generate" /\ pc = "for"
    /\ ~RangeHasNext(passes, iterations)
    /\ pc' = "done"
    /\ UNCHANGED <<call, axiom, rules, iterations, current, next_string, passes, j, argVars, commands, turtle, rdVars, cfgVars>>

NextGenerate ==
    \/ GenerateCall
    \/ GenerateBeginPass
    \/ GenerateChar
    \/ GenerateEndPass
    \/ GenerateReturn

SpecGenerate == InitGenerate /\ [][NextGenerate]_vars

FairSpecGenerate == SpecGenerate /\ WF_vars(NextGenerate)

(***************************************************************************)
(* LSystem.interpret_2d                                                    *)
(*                                                                         *)
(* `turtle` holds the locals x, y, z, direction, current_length, stack and *)
(* lines; raised names the exception that ended the loop, "none" if none.  *)
(***************************************************************************)
\* lines = []; stack = []; x, y = start_point.X, start_point.Y; ...
Locals2D ==
    [x |-> start_point[1], y |-> start_point[2], z |-> start_point[3],
     direction |-> initial_angle,
     current_length |-> length,
     stack |-> <<>>,
     lines |-> <<>>,
     raised |-> "none"]

\* cmd == 'F' or cmd == 'G': move forward and draw
Forward2DKeepsPosition(t) ==
    LET nx == t.x + Mul(t.current_length, Cos(t.direction))
        ny == t.y + Mul(t.current_length, Sin(t.direction))
        start == ByCoordinates(t.x, t.y, t.z)
        end == ByCoordinates(nx, ny, t.z)
    IN  [t EXCEPT !.lines = Append(@, ByStartPointEndPoint(start, end))]

Forward2D(t) ==
    LET nx == t.x + Mul(t.current_length, Cos(t.direction))
        ny == t.y + Mul(t.current_length, Sin(t.direction))
        start == ByCoordinates(t.x, t.y, t.z)
        end == ByCoordinates(nx, ny, t.z)
    IN  [t EXCEPT !.lines = Append(@, ByStartPointEndPoint(start, end)),
                  !.x = nx, !.y = ny]

\* cmd == 'f': move forward without drawing
Move2D(t) ==
    [t EXCEPT !.x = @ + Mul(t.current_length, Cos(t.direction)),
              !.y = @ + Mul(t.current_length, Sin(t.direction))]

\* cmd == '+': direction -= self.angle
TurnRight2DIgnored(t) == t

TurnRight2D(t) == [t EXCEPT !.direction = @ - angle]

\* cmd == '-': direction += self.angle
TurnLeft2D(t) == [t EXCEPT !.direction = @ + angle]

\* cmd == '[': stack.append((x, y, direction, current_length));
\*             current_length *= length_decay
Push2DDecaysFirst(t) ==
    LET shorter == RoundDiv(t.current_length * length_decay[1], length_decay[2])
    IN  [t EXCEPT !.stack = Append(@, <<t.x, t.y, t.direction, shorter>>),
                  !.current_length = shorter]

Push2D(t) ==
    [t EXCEPT !.stack = Append(@, <<t.x, t.y, t.direction, t.current_length>>),
              !.current_length = RoundDiv(@ * length_decay[1], length_decay[2])]

\* cmd == ']': if stack: x, y, direction, current_length = stack.pop()
Pop2DUnguarded(t) ==
    IF t.stack # <<>>
    THEN LET top == t.stack[Len(t.stack)]
         IN  [t EXCEPT !.x = top[1], !.y = top[2], !.direction = top[3],
                       !.current_length = top[4],
                       !.stack = SubSeq(@, 1, Len(@) - 1)]
    ELSE [t EXCEPT !.raised = "IndexError"]

Pop2DKeepsDirection(t) ==
    IF t.stack # <<>>
    THEN LET top == t.stack[Len(t.stack)]
         IN  [t EXCEPT !.x = top[1], !.y = top[2],
                       !.current_length = top[4],
                       !.stack = SubSeq(@, 1, Len(@) - 1)]
    ELSE t

Pop2D(t) ==
    IF t.stack # <<>>
    THEN LET top == t.stack[Len(t.stack)]
         IN  [t EXCEPT !.x = top[1], !.y = top[2], !.direction = top[3],
                       !.current_length = top[4],
                       !.stack = SubSeq(@, 1, Len(@) - 1)]
    ELSE t

\* cmd == '|': direction += 180
TurnAround2D(t) == [t EXCEPT !.direction = @ + 180]

\* the body of `for cmd in commands`
Step2DElseTurnsAround(t, cmd) ==
    CASE cmd \in {"F", "G"} -> Forward2D(t)
      [] cmd = "f" -> Move2D(t)
      [] cmd = "+" -> TurnRight2D(t)
      [] cmd = "-" -> TurnLeft2D(t)
      [] cmd = "[" -> Push2D(t)
      [] cmd = "]" -> Pop2D(t)
      [] OTHER -> TurnAround2D(t)

Step2D(t, cmd) ==
    CASE cmd \in {"F", "G"} -> Forward2D(t)
      [] cmd = "f" -> Move2D(t)
      [] cmd = "+" -> TurnRight2D(t)
      [] cmd = "-" -> TurnLeft2D(t)
      [] cmd = "[" -> Push2D(t)
      [] cmd = "]" -> Pop2D(t)
      [] cmd = "|" -> TurnAround2D(t)
      [] OTHER -> t

\* the state between two LSystem calls of the turtle specification: an
\* LSystem with some angle, and the arguments of the call to come
InitTurtle ==
    /\ call \in {"interpret_2d", "interpret_3d"}
    /\ pc = "call"
    /\ axiom = <<>>
    /\ rules = NoRules
    /\ iterations = 0
    /\ current = <<>>
    /\ next_string = <<>>
    /\ passes = 0
    /\ j = 1
    /\ angle \in Angles
    /\ commands = <<>>
    /\ start_point \in StartPoints
    /\ initial_angle \in InitialAngles
    /\ initial_direction \in InitialDirections
    /\ length \in Lengths
    /\ length_decay \in Decays
    /\ turtle = NoTurtle
    /\ NoReactionDiffusion
    /\ NoConvenience
    /\ call = "interpret_2d" => initial_direction = None
    /\ call = "interpret_3d" => initial_angle = DefaultInitialAngle

\* interpret_2d is entered: the locals are initialised
Interpret2DCall ==
    /\ call = "interpret_2d" /\ pc = "call"
    /\ turtle' = Locals2D
    /\ pc' = "for"
    /\ UNCHANGED <<call, genVars, argVars, commands, rdVars, cfgVars>>

\* one iteration of `for cmd in commands`, on the next character cmd
Interpret2DCmd ==
    /\ call = "interpret_2d" /\ pc = "for"
    /\ turtle.raised = "none"
    /\ \E cmd \in Alphabet :
          /\ IsInput(Append(commands, cmd))
          /\ commands' = Append(commands, cmd)
          /\ turtle' = Step2D(turtle, cmd)
    /\ UNCHANGED <<call, pc, genVars, argVars, rdVars, cfgVars>>

(***************************************************************************)
(* LSystem.interpret_3d and LSystem._rotate_vector                         *)
(*                                                                         *)
(* `turtle` holds the locals position, heading, left, up, current_length,  *)
(* stack and lines.  angle_rad is kept in degrees, the unit of Cos and Sin.*)
(***************************************************************************)
\* angle_rad = math.radians(self.angle)
angle_rad == angle

\* _rotate_vector: Rodrigues' rotation formula
RotateVector(v, axis, a) ==
    LET cos_a == Cos(a)
        sin_a == Sin(a)
        dot == Mul(axis[1], v[1]) + Mul(axis[2], v[2]) + Mul(axis[3], v[3])
        v_rot_x == Mul(v[1], cos_a)
                     + Mul(Mul(axis[2], v[3]) - Mul(axis[3], v[2]), sin_a)
                     + Mul(Mul(axis[1], dot), Scale - cos_a)
        v_rot_y == Mul(v[2], cos_a)
                     + Mul(Mul(axis[3], v[1]) - Mul(axis[1], v[3]), sin_a)
                     + Mul(Mul(axis[2], dot), Scale - cos_a)
        v_rot_z == Mul(v[3], cos_a)
                     + Mul(Mul(axis[1], v[2]) - Mul(axis[2], v[1]), sin_a)
                     + Mul(Mul(axis[3], dot), Scale - cos_a)
    IN  ByCoordinates(v_rot_x, v_rot_y, v_rot_z)

\* if initial_direction is None: ...; lines = []; stack = []; position = ...
Locals3D ==
    [position |-> start_point,
     heading |-> Normalized(IF initial_direction = None
                            THEN ByCoordinates(0, 0, Scale)
                            ELSE initial_direction),
     left |-> ByCoordinates(-Scale, 0, 0),
     up |-> ByCoordinates(0, Scale, 0),
     current_length |-> length,
     stack |-> <<>>,
     lines |-> <<>>,
     raised |-> "none"]

\* Point.ByCoordinates(position.X + heading.X * current_length, ...)
Ahead3D(t) ==
    ByCoordinates(t.position[1] + Mul(t.heading[1], t.current_length),
                  t.position[2] + Mul(t.heading[2], t.current_length),
                  t.position[3] + Mul(t.heading[3], t.current_length))

\* cmd == 'F' or cmd == 'G': move forward and draw
Forward3DDrawsFromNewPosition(t) ==
    LET new_pos == Ahead3D(t)
    IN  [t EXCEPT !.lines = Append(@, ByStartPointEndPoint(new_pos, new_pos)),
                  !.position = new_pos]

Forward3D(t) ==
    LET new_pos == Ahead3D(t)
    IN  [t EXCEPT !.lines = Append(@, ByStartPointEndPoint(t.position, new_pos)),
                  !.position = new_pos]

\* cmd == 'f': move forward without drawing
Move3D(t) == [t EXCEPT !.position = Ahead3D(t)]

\* cmd == '+': turn right (yaw)
YawRight3DKeepsLeft(t) ==
    [t EXCEPT !.heading = RotateVector(t.heading, t.up, -angle_rad)]

YawRight3D(t) ==
    [t EXCEPT !.heading = RotateVector(t.heading, t.up, -angle_rad),
              !.left = RotateVector(t.left, t.up, -angle_rad)]

\* cmd == '-': turn left (yaw)
YawLeft3D(t) ==
    [t EXCEPT !.heading = RotateVector(t.heading, t.up, angle_rad),
              !.left = RotateVector(t.left, t.up, angle_rad)]

\* cmd == '&': pitch down
PitchDown3D(t) ==
    [t EXCEPT !.heading = RotateVector(t.heading, t.left, -angle_rad),
              !.up = RotateVector(t.up, t.left, -angle_rad)]

\* cmd == '^': pitch up
PitchUp3D(t) ==
    [t EXCEPT !.heading = RotateVector(t.heading, t.left, angle_rad),
              !.up = RotateVector(t.up, t.left, angle_rad)]

\* cmd == '\\': roll left
RollLeft3D(t) ==
    [t EXCEPT !.left = RotateVector(t.left, t.heading, angle_rad),
              !.up = RotateVector(t.up, t.heading, angle_rad)]

\* cmd == '/': roll right
RollRight3DSameSense(t) ==
    [t EXCEPT !.left = RotateVector(t.left, t.heading, angle_rad),
              !.up = RotateVector(t.up, t.heading, angle_rad)]

RollRight3D(t) ==
    [t EXCEPT !.left = RotateVector(t.left, t.heading, -angle_rad),
              !.up = RotateVector(t.up, t.heading, -angle_rad)]

\* cmd == '[': stack.append((position, heading, left, up, current_length));
\*             current_length *= length_decay
Push3D(t) ==
    [t EXCEPT !.stack = Append(@, <<t.position, t.heading, t.left, t.up,
                                    t.current_length>>),
              !.current_length = RoundDiv(@ * length_decay[1], length_decay[2])]

\* cmd == ']': if stack: position, heading, left, up, current_length = stack.pop()
Pop3DKeepsLength(t) ==
    IF t.stack # <<>>
    THEN LET top == t.stack[Len(t.stack)]
         IN  [t EXCEPT !.position = top[1], !.heading = top[2], !.left = top[3],
                       !.up = top[4],
                       !.stack = SubSeq(@, 1, Len(@) - 1)]
    ELSE t

Pop3D(t) ==
    IF t.stack # <<>>
    THEN LET top == t.stack[Len(t.stack)]
         IN  [t EXCEPT !.position = top[1], !.heading = top[2], !.left = top[3],
                       !.up = top[4], !.current_length = top[5],
                       !.stack = SubSeq(@, 1, Len(@) - 1)]
    ELSE t

\* the body of `for cmd in commands`
Step3D(t, cmd) ==
    CASE cmd \in {"F", "G"} -> Forward3D(t)
      [] cmd = "f" -> Move3D(t)
      [] cmd = "+" -> YawRight3D(t)
      [] cmd = "-" -> YawLeft3D(t)
      [] cmd = "&" -> PitchDown3D(t)
      [] cmd = "^" -> PitchUp3D(t)
      [] cmd = "\\" -> RollLeft3D(t)
      [] cmd = "/" -> RollRight3D(t)
      [] cmd = "[" -> Push3D(t)
      [] cmd = "]" -> Pop3D(t)
      [] OTHER -> t

\* interpret_3d is entered: the locals are initialised
Interpret3DCall ==
    /\ call = "interpret_3d" /\ pc = "call"
    /\ turtle' = Locals3D
    /\ pc' = "for"
    /\ UNCHANGED <<call, genVars, argVars, commands, rdVars, cfgVars>>

\* one iteration of `for cmd in commands`, on the next character cmd
Interpret3DCmd ==
    /\ call = "interpret_3d" /\ pc = "for"
    /\ turtle.raised = "none"
    /\ \E cmd \in Alphabet :
          /\ IsInput(Append(commands, cmd))
          /\ commands' = Append(commands, cmd)
          /\ turtle' = Step3D(turtle, cmd)
    /\ UNCHANGED <<call, pc, genVars, argVars, rdVars, cfgVars>>

\* The end of the command string needs no action: `return lines` changes
\* nothing, so every state with pc = "for" is also the final state of the
\* call whose command string is `commands`.
NextTurtle ==
    \/ Interpret2DCall
    \/ Interpret2DCmd
    \/ Interpret3DCall
    \/ Interpret3DCmd

SpecTurtle == InitTurtle /\ [][NextTurtle]_vars

(***************************************************************************)
(* reaction_diffusion (morpho_patterns.py)                                 *)
(*                                                                         *)
(* A grid is a function from the row index 0..height-1 to rows, a row a    *)
(* function from the column index 0..width-1 to concentrations.  The       *)
(* generator of module random is a linear congruential generator: its      *)
(* state rng is set by random.seed and advanced by every random.randint.   *)
(***************************************************************************)
\* the number of calls of reaction_diffusion in a behaviour
MaxCalls == 2

\* the largest `iterations` of a call: enough steps for the seeded blocks to
\* diffuse to the top and bottom rows, where the neighbours wrap around
MaxSteps == 7

\* for _ in range(10)
Spots == 10

\* random.randint(10, width - 10)
Margin == 10

\* for dy in range(-3, 4)
Radius == 3

\* dA, dB = 1.0, 0.5
dA == Scale

dB == Scale \div 2

\* dt = 1.0
dt == Scale

\* the states the generator may be in before a call
PriorRng == {0, 12345}

\* the arguments of the calls: a grid large enough for the seeding, run for
\* no or one step at the default rates and for MaxSteps steps at pathological
\* rates, and three grids too small for the seeding
RDArgs ==
    [width : {24}, height : {22}, iterations : {0, 1},
     feed_rate : {55}, kill_rate : {62}, seed : {42, 7}]
    \cup [width : {24}, height : {22}, iterations : {MaxSteps},
          feed_rate : {-2000}, kill_rate : {500}, seed : {42}]
    \cup [width : {19, 5}, height : {22}, iterations : {1},
          feed_rate : {55}, kill_rate : {62}, seed : {42}]
    \cup [width : {24}, height : {5}, iterations : {1},
          feed_rate : {55}, kill_rate : {62}, seed : {42}]

\* random.seed(seed)
RandomSeed(seed) == seed % 65537

\* the state of the generator after one draw
RandomAdvance(state) == (state * 75 + 74) % 65537

\* random.randint(a, b), a <= b, drawn in the state `state`
RandInt(state, a, b) == a + (RandomAdvance(state) % (b - a + 1))

\* [[v for _ in range(width)] for _ in range(height)]
NewGridTransposed(w, h, v) == [row \in 0..(w - 1) |-> [col \in 0..(h - 1) |-> v]]

NewGrid(w, h, v) == [row \in 0..(h - 1) |-> [col \in 0..(w - 1) |-> v]]

\* the block of B = 1.0 around (cx, cy), clipped to the grid
SeedBlock(grid, cx, cy) ==
    [row \in DOMAIN grid |->
        [col \in DOMAIN grid[row] |->
            IF /\ \E dy \in (-Radius)..Radius : row = cy + dy
               /\ \E dx \in (-Radius)..Radius : col = cx + dx
               /\ 0 <= row /\ row < rd_args.height
               /\ 0 <= col /\ col < rd_args.width
            THEN Scale ELSE grid[row][col]]]

\* laplacian(grid, x, y)
Laplacian(grid, x, y) ==
    LET h == Cardinality(DOMAIN grid)
        w == Cardinality(DOMAIN grid[0])
        center == grid[y][x]
        top == grid[(y - 1) % h][x]
        bottom == grid[(y + 1) % h][x]
        left == grid[y][(x - 1) % w]
        right == grid[y][(x + 1) % w]
    IN  top + bottom + left + right - 4 * center

\* max(0, min(1, v))
Clamp01Missing(v) == v

Clamp01(v) == IF v < 0 THEN 0 ELSE IF v > Scale THEN Scale ELSE v

\* newA[y][x], before the clamp
NextA(x, y) ==
    LET a == A[y][x]
        b == B[y][x]
        lapA == Laplacian(A, x, y)
        reaction == Mul(Mul(a, b), b)
    IN  a + Mul(dt, Mul(dA, lapA) - reaction + Mul(rd_args.feed_rate, Scale - a))

\* newB[y][x], before the clamp
NextB(x, y) ==
    LET a == A[y][x]
        b == B[y][x]
        lapB == Laplacian(B, x, y)
        reaction == Mul(Mul(a, b), b)
    IN  b + Mul(dt, Mul(dB, lapB) + reaction
                      - Mul(rd_args.kill_rate + rd_args.feed_rate, b))

\* the state before the first call: the generator in any state
InitRD ==
    /\ call = "reaction_diffusion"
    /\ pc = "idle"
    /\ axiom = <<>>
    /\ rules = NoRules
    /\ iterations = 0
    /\ current = <<>>
    /\ next_string = <<>>
    /\ passes = 0
    /\ j = 1
    /\ angle = 90
    /\ commands = <<>>
    /\ start_point = Origin
    /\ initial_angle = DefaultInitialAngle
    /\ initial_direction = None
    /\ length = Scale
    /\ length_decay = <<1, 1>>
    /\ turtle = NoTurtle
    /\ rng \in PriorRng
    /\ rd_args = <<>>
    /\ A = <<>>
    /\ B = <<>>
    /\ newA = <<>>
    /\ newB = <<>>
    /\ loop = <<>>
    /\ returned = <<>>
    /\ NoConvenience

frame == <<genVars, argVars, commands, turtle, cfgVars>>

\* random.seed(seed); A = ...; B = ...
RDCallKeepsGenerator ==
    /\ call = "reaction_diffusion" /\ pc \in {"idle", "done", "raised"}
    /\ Len(returned) < MaxCalls
    /\ \E args \in RDArgs :
          /\ rd_args' = args
          /\ rng' = rng
          /\ A' = NewGrid(args.width, args.height, Scale)
          /\ B' = NewGrid(args.width, args.height, 0)
    /\ loop' = [spot |-> 0, step |-> 0, x |-> 0, y |-> 0]
    /\ pc' = "seed"
    /\ UNCHANGED <<call, frame, newA, newB, returned>>

RDCall ==
    /\ call = "reaction_diffusion" /\ pc \in {"idle", "done", "raised"}
    /\ Len(returned) < MaxCalls
    /\ \E args \in RDArgs :
          /\ rd_args' = args
          /\ rng' = RandomSeed(args.seed)
          /\ A' = NewGrid(args.width, args.height, Scale)
          /\ B' = NewGrid(args.width, args.height, 0)
    /\ loop' = [spot |-> 0, step |-> 0, x |-> 0, y |-> 0]
    /\ pc' = "seed"
    /\ UNCHANGED <<call, frame, newA, newB, returned>>

\* one iteration of `for _ in range(10)`: cx, cy = random.randint(...), and
\* the block around them; random.randint raises ValueError on an empty range
RDSeedSpot ==
    /\ call = "reaction_diffusion" /\ pc = "seed"
    /\ loop.spot < Spots
    /\ IF rd_args.width - Margin < Margin
       THEN /\ pc' = "raised"
            /\ returned' = Append(returned, [args |-> rd_args, raised |-> "ValueError",
                                              result |-> <<>>])
            /\ UNCHANGED <<rng, B, loop>>
       ELSE LET cx == RandInt(rng, Margin, rd_args.width - Margin)
                rng1 == RandomAdvance(rng)
            IN  IF rd_args.height - Margin < Margin
                THEN /\ pc' = "raised"
                     /\ rng' = rng1
                     /\ returned' = Append(returned,
                                       [args |-> rd_args, raised |-> "ValueError",
                                        result |-> <<>>])
                     /\ UNCHANGED <<B, loop>>
                ELSE LET cy == RandInt(rng1, Margin, rd_args.height - Margin)
                     IN  /\ rng' = RandomAdvance(rng1)
                         /\ B' = SeedBlock(B, cx, cy)
                         /\ loop' = [loop EXCEPT !.spot = @ + 1]
                         /\ UNCHANGED <<pc, returned>>
    /\ UNCHANGED <<call, frame, rd_args, A, newA, newB>>

\* the seeding is over
RDSeedDone ==
    /\ call = "reaction_diffusion" /\ pc = "seed"
    /\ loop.spot >= Spots
    /\ pc' = "for"
    /\ UNCHANGED <<call, frame, rdVars, cfgVars>>

\* for _ in range(iterations): newA = ...; newB = ...
RDBeginStep ==
    /\ call = "reaction_diffusion" /\ pc = "for"
    /\ loop.step < rd_args.iterations
    /\ newA' = NewGrid(rd_args.width, rd_args.height, 0)
    /\ newB' = NewGrid(rd_args.width, rd_args.height, 0)
    /\ loop' = [loop EXCEPT !.x = 0, !.y = 0]
    /\ pc' = "cells"
    /\ UNCHANGED <<call, frame, rng, rd_args, A, B, returned>>

\* the body of `for y in range(height): for x in range(width)`
RDCellInPlace ==
    /\ call = "reaction_diffusion" /\ pc = "cells"
    /\ loop.y < rd_args.height
    /\ A' = [A EXCEPT ![loop.y][loop.x] = Clamp01(NextA(loop.x, loop.y))]
    /\ B' = [B EXCEPT ![loop.y][loop.x] = Clamp01(NextB(loop.x, loop.y))]
    /\ newA' = A'
    /\ newB' = B'
    /\ loop' = IF loop.x + 1 < rd_args.width
               THEN [loop EXCEPT !.x = @ + 1]
               ELSE [loop EXCEPT !.x = 0, !.y = @ + 1]
    /\ UNCHANGED <<call, pc, frame, rng, rd_args, returned>>

RDCell ==
    /\ call = "reaction_diffusion" /\ pc = "cells"
    /\ loop.y < rd_args.height
    /\ newA' = [newA EXCEPT ![loop.y][loop.x] = Clamp01(NextA(loop.x, loop.y))]
    /\ newB' = [newB EXCEPT ![loop.y][loop.x] = Clamp01(NextB(loop.x, loop.y))]
    /\ loop' = IF loop.x + 1 < rd_args.width
               THEN [loop EXCEPT !.x = @ + 1]
               ELSE [loop EXCEPT !.x = 0, !.y = @ + 1]
    /\ UNCHANGED <<call, pc, frame, rng, rd_args, A, B, returned>>

\* A = newA; B = newB
RDEndStep ==
    /\ call = "reaction_diffusion" /\ pc = "cells"
    /\ loop.y >= rd_args.height
    /\ A' = newA
    /\ B' = newB
    /\ loop' = [loop EXCEPT !.step = @ + 1]
    /\ pc' = "for"
    /\ UNCHANGED <<call, frame, rng, rd_args, newA, newB, returned>>

\* return B
RDReturn ==
    /\ call = "reaction_diffusion" /\ pc = "for"
    /\ loop.step >= rd_args.iterations
    /\ returned' = Append(returned, [args |-> rd_args, raised |-> "none", result |-> B])
    /\ pc' = "done"
    /\ UNCHANGED <<call, frame, rng, rd_args, A, B, newA, newB, loop>>

NextRD ==
    \/ RDCall
    \/ RDSeedSpot
    \/ RDSeedDone
    \/ RDBeginStep
    \/ RDCell
    \/ RDEndStep
    \/ RDReturn

SpecRD == InitRD /\ [][NextRD]_vars

(***************************************************************************)
(* The module-level functions LSystem.from_preset, generate_2d,            *)
(* generate_3d and get_preset_info                                         *)
(*                                                                         *)
(* Preset names, axioms, rule strings and messages are sequences of        *)
(* characters.  An optional argument is Absent when it is None and         *)
(* Given(v) when it is v.                                                  *)
(***************************************************************************)
Absent == <<>>

Given(v) == <<v>>

\* PRESETS.keys(), in the order of the dictionary
PresetKeys ==
    << <<"t", "r", "e", "e">>,
       <<"b", "u", "s", "h">>,
       <<"f", "e", "r", "n">>,
       <<"s", "e", "a", "w", "e", "e", "d">>,
       <<"d", "r", "a", "g", "o", "n">>,
       <<"s", "i", "e", "r", "p", "i", "n", "s", "k", "i">>,
       <<"h", "i", "l", "b", "e", "r", "t">>,
       <<"g", "o", "s", "p", "e", "r">>,
       <<"p", "e", "n", "r", "o", "s", "e">>,
       <<"b", "i", "n", "a", "r", "y", "_", "t", "r", "e", "e">>,
       <<"c", "r", "y", "s", "t", "a", "l">>,
       <<"s", "n", "o", "w", "f", "l", "a", "k", "e">> >>

\* PRESETS; the angle 22.5 is the fraction <<45, 2>>
PRESETS ==
       (<<"t", "r", "e", "e">> :> [axiom |-> <<"F">>,
       rules |-> (<<"F">> :> <<"F", "F", "+", "[", "+", "F", "-", "F", "-",
       "F", "]", "-", "[", "-", "F", "+", "F", "+", "F", "]">>), angle |-> 25,
       description |-> <<"R", "e", "a", "l", "i", "s", "t", "i", "c", " ",
       "t", "r", "e", "e", " ", "b", "r", "a", "n", "c", "h", "i", "n", "g",
       " ", "p", "a", "t", "t", "e", "r", "n">>])
    @@ (<<"b", "u", "s", "h">> :> [axiom |-> <<"F">>,
       rules |-> (<<"F">> :> <<"F", "F", "-", "[", "-", "F", "+", "F", "+",
       "F", "]", "+", "[", "+", "F", "-", "F", "-", "F", "]">>),
       angle |-> <<45, 2>>, description |-> <<"D", "e", "n", "s", "e", " ",
       "b", "u", "s", "h", " ", "p", "a", "t", "t", "e", "r", "n">>])
    @@ (<<"f", "e", "r", "n">> :> [axiom |-> <<"X">>,
       rules |-> (<<"X">> :> <<"F", "+", "[", "[", "X", "]", "-", "X", "]",
       "-", "F", "[", "-", "F", "X", "]", "+", "X">>) @@ (<<"F">> :> <<"F",
       "F">>), angle |-> 25, description |-> <<"B", "a", "r", "n", "s", "l",
       "e", "y", " ", "f", "e", "r", "n", "-", "l", "i", "k", "e", " ", "p",
       "a", "t", "t", "e", "r", "n">>])
    @@ (<<"s", "e", "a", "w", "e", "e", "d">> :> [axiom |-> <<"F">>,
       rules |-> (<<"F">> :> <<"F", "F", "-", "[", "X", "Y", "]", "+", "[",
       "X", "Y", "]">>) @@ (<<"X">> :> <<"+", "F",
       "Y">>) @@ (<<"Y">> :> <<"-", "F", "X">>), angle |-> <<45, 2>>,
       description |-> <<"S", "w", "a", "y", "i", "n", "g", " ", "s", "e",
       "a", "w", "e", "e", "d", " ", "p", "a", "t", "t", "e", "r", "n">>])
    @@ (<<"d", "r", "a", "g", "o", "n">> :> [axiom |-> <<"F", "X">>,
       rules |-> (<<"X">> :> <<"X", "+", "Y", "F",
       "+">>) @@ (<<"Y">> :> <<"-", "F", "X", "-", "Y">>), angle |-> 90,
       description |-> <<"D", "r", "a", "g", "o", "n", " ", "c", "u", "r",
       "v", "e", " ", "f", "r", "a", "c", "t", "a", "l">>])
    @@ (<<"s", "i", "e", "r", "p", "i", "n", "s", "k",
       "i">> :> [axiom |-> <<"F", "-", "G", "-", "G">>,
       rules |-> (<<"F">> :> <<"F", "-", "G", "+", "F", "+", "G", "-",
       "F">>) @@ (<<"G">> :> <<"G", "G">>), angle |-> 120,
       description |-> <<"S", "i", "e", "r", "p", "i", "n", "s", "k", "i",
       " ", "t", "r", "i", "a", "n", "g", "l", "e", " ", "u", "s", "i", "n",
       "g", " ", "L", "-", "s", "y", "s", "t", "e", "m">>])
    @@ (<<"h", "i", "l", "b", "e", "r", "t">> :> [axiom |-> <<"A">>,
       rules |-> (<<"A">> :> <<"-", "B", "F", "+", "A", "F", "A", "+", "F",
       "B", "-">>) @@ (<<"B">> :> <<"+", "A", "F", "-", "B", "F", "B", "-",
       "F", "A", "+">>), angle |-> 90, description |-> <<"H", "i", "l", "b",
       "e", "r", "t", " ", "s", "p", "a", "c", "e", "-", "f", "i", "l", "l",
       "i", "n", "g", " ", "c", "u", "r", "v", "e">>])
    @@ (<<"g", "o", "s", "p", "e", "r">> :> [axiom |-> <<"A">>,
       rules |-> (<<"A">> :> <<"A", "-", "B", "-", "-", "B", "+", "A", "+",
       "+", "A", "A", "+", "B", "-">>) @@ (<<"B">> :> <<"+", "A", "-", "B",
       "B", "-", "-", "B", "-", "A", "+", "+", "A", "+", "B">>), angle |-> 60,
       description |-> <<"G", "o", "s", "p", "e", "r", " ", "c", "u", "r",
       "v", "e", " ", "(", "f", "l", "o", "w", "s", "n", "a", "k", "e",
       ")">>])
    @@ (<<"p", "e", "n", "r", "o", "s", "e">> :> [axiom |-> <<"[", "7", "]",
       "+", "+", "[", "7", "]", "+", "+", "[", "7", "]", "+", "+", "[", "7",
       "]", "+", "+", "[", "7", "]">>, rules |-> (<<"6">> :> <<"8", "1", "t",
       "e", "l", "e", "f", "o", "n", "f", "]", "+", "+", "t", "e", "l", "e",
       "f", "o", "n", "f", "]", "-", "-", "-", "-", "7", "t", "e", "l", "e",
       "f", "o", "n", "f", "]", "[", "-", "-", "8", "t", "e", "l", "e", "f",
       "o", "n", "f", "]">>) @@ (<<"7">> :> <<"+", "8", "1", "t", "e", "l",
       "e", "f", "o", "n", "f", "]", "-", "-", "7", "t", "e", "l", "e", "f",
       "o", "n", "f", "]", "-", "-", "-", "-", "6", "t", "e", "l", "e", "f",
       "o", "n", "f", "]", "+", "+", "6", "t", "e", "l", "e", "f", "o", "n",
       "f", "]", "+", "+", "7", "t", "e", "l", "e", "f", "o", "n", "f", "]",
       "-">>) @@ (<<"8">> :> <<"-", "8", "1", "t", "e", "l", "e", "f", "o",
       "n", "f", "]", "+", "+", "7", "t", "e", "l", "e", "f", "o", "n", "f",
       "]", "+", "+", "+", "+", "6", "t", "e", "l", "e", "f", "o", "n", "f",
       "]", "-", "-", "6", "t", "e", "l", "e", "f", "o", "n", "f", "]", "-",
       "-", "7", "t", "e", "l", "e", "f", "o", "n", "f", "]",
       "+">>) @@ (<<"t", "e", "l", "e", "f", "o", "n", "f", "]">> :> <<>>),
       angle |-> 36, description |-> <<"P", "e", "n", "r", "o", "s", "e", " ",
       "t", "i", "l", "i", "n", "g", " ", "p", "a", "t", "t", "e", "r",
       "n">>])
    @@ (<<"b", "i", "n", "a", "r", "y", "_", "t", "r", "e",
       "e">> :> [axiom |-> <<"0">>, rules |-> (<<"0">> :> <<"1", "[", "+",
       "0", "]", "-", "0">>) @@ (<<"1">> :> <<"1", "1">>), angle |-> 45,
       description |-> <<"S", "i", "m", "p", "l", "e", " ", "b", "i", "n",
       "a", "r", "y", " ", "t", "r", "e", "e">>])
    @@ (<<"c", "r", "y", "s", "t", "a", "l">> :> [axiom |-> <<"F", "+", "F",
       "+", "F", "+", "F">>, rules |-> (<<"F">> :> <<"F", "F", "+", "F", "+",
       "+", "F", "+", "F">>), angle |-> 90, description |-> <<"C", "r", "y",
       "s", "t", "a", "l", "-", "l", "i", "k", "e", " ", "g", "r", "o", "w",
       "t", "h", " ", "p", "a", "t", "t", "e", "r", "n">>])
    @@ (<<"s", "n", "o", "w", "f", "l", "a", "k", "e">> :> [axiom |-> <<"F",
       "+", "+", "F", "+", "+", "F">>, rules |-> (<<"F">> :> <<"F", "-", "F",
       "+", "+", "F", "-", "F">>), angle |-> 60, description |-> <<"K", "o",
       "c", "h", " ", "s", "n", "o", "w", "f", "l", "a", "k", "e", " ", "v",
       "a", "r", "i", "a", "t", "i", "o", "n">>])

\* f"Unknown preset '{preset_name}'. Available: {available}"
UnknownPresetText ==
    <<"U", "n", "k", "n", "o", "w", "n", " ", "p", "r", "e", "s", "e", "t",
    " ", "'">>

AvailableText ==
    <<"'", ".", " ", "A", "v", "a", "i", "l", "a", "b", "l", "e", ":", " ">>

\* the message of generate_2d and generate_3d
CustomRulesRequired ==
    <<"C", "u", "s", "t", "o", "m", " ", "r", "u", "l", "e", "s", " ", "r",
    "e", "q", "u", "i", "r", "e", "d", " ", "w", "h", "e", "n", " ", "n", "o",
    "t", " ", "u", "s", "i", "n", "g", " ", "a", " ", "p", "r", "e", "s", "e",
    "t">>

\* f"Unknown preset: {preset_name}" under the key "error"
UnknownPresetInfoText ==
    <<"U", "n", "k", "n", "o", "w", "n", " ", "p", "r", "e", "s", "e", "t",
    ":", " ">>

ErrorKey ==
    <<"e", "r", "r", "o", "r">>

\* s.split(sep), sep a single character
RECURSIVE Split(_, _)
Split(s, sep) ==
    IF \E i \in 1..Len(s) : s[i] = sep
    THEN LET i == CHOOSE k \in 1..Len(s) :
                      s[k] = sep /\ \A m \in 1..(k - 1) : s[m] # sep
         IN  <<SubSeq(s, 1, i - 1)>> \o Split(SubSeq(s, i + 1, Len(s)), sep)
    ELSE <<s>>

\* s.strip()
RECURSIVE Strip(_)
Strip(s) ==
    IF s # <<>> /\ Head(s) = " " THEN Strip(Tail(s))
    ELSE IF s # <<>> /\ s[Len(s)] = " " THEN Strip(SubSeq(s, 1, Len(s) - 1))
    ELSE s

\* sep.join(names)
RECURSIVE Join(_, _)
Join(names, sep) ==
    IF names = <<>> THEN <<>>
    ELSE IF Len(names) = 1 THEN names[1]
    ELSE names[1] \o sep \o Join(Tail(names), sep)

\* rules = {}; for rule in custom_rules.split(","): ..., after the first n rules
RECURSIVE ParseRules(_, _)
ParseRules(list, n) ==
    IF n = 0 THEN NoRules
    ELSE LET parts == Split(Strip(list[n]), "=")
             before == ParseRules(list, n - 1)
         IN  IF Len(parts) = 2
             THEN (Strip(parts[1]) :> Strip(parts[2])) @@ before
             ELSE before

\* LSystem.from_preset: the exception raised or the LSystem made
FromPresetOmitsAvailable(preset_name) ==
    IF preset_name \notin DOMAIN PRESETS
    THEN [raised |-> "ValueError",
          message |-> UnknownPresetText \o preset_name \o <<"'">>]
    ELSE [raised |-> "none",
          axiom |-> PRESETS[preset_name].axiom,
          rules |-> PRESETS[preset_name].rules,
          angle |-> PRESETS[preset_name].angle]

FromPreset(preset_name) ==
    IF preset_name \notin DOMAIN PRESETS
    THEN [raised |-> "ValueError",
          message |-> UnknownPresetText \o preset_name \o AvailableText
                      \o Join(PresetKeys, <<",", " ">>)]
    ELSE [raised |-> "none",
          axiom |-> PRESETS[preset_name].axiom,
          rules |-> PRESETS[preset_name].rules,
          angle |-> PRESETS[preset_name].angle]

\* angle = custom_angle if custom_angle is not None else 25
DefaultCustomAngle == 25

\* generate_2d / generate_3d, `if preset_or_axiom in PRESETS: ... else: ...`:
\* the exception raised or the LSystem made
MakeLSystem(preset_or_axiom, custom_rules, custom_angle) ==
    IF preset_or_axiom \in DOMAIN PRESETS
    THEN FromPreset(preset_or_axiom)
    ELSE IF custom_rules = Absent
    THEN [raised |-> "ValueError", message |-> CustomRulesRequired]
    ELSE LET list == Split(custom_rules[1], ",")
         IN  [raised |-> "none",
              axiom |-> preset_or_axiom,
              rules |-> ParseRules(list, Len(list)),
              angle |-> IF custom_angle # Absent THEN custom_angle[1]
                        ELSE DefaultCustomAngle]

\* get_preset_info: the dictionary returned
GetPresetInfo(preset_name) ==
    IF preset_name # Absent
    THEN IF preset_name[1] \notin DOMAIN PRESETS
         THEN (ErrorKey :> (UnknownPresetInfoText \o preset_name[1]))
         ELSE (preset_name[1] :> PRESETS[preset_name[1]])
    ELSE PRESETS

\* names that are not presets
Oak ==
    <<"o", "a", "k">>

CapitalTree ==
    <<"T", "r", "e", "e">>

\* names of presets
Dragon ==
    <<"d", "r", "a", "g", "o", "n">>

Crystal ==
    <<"c", "r", "y", "s", "t", "a", "l">>

Snowflake ==
    <<"s", "n", "o", "w", "f", "l", "a", "k", "e">>

\* custom rule strings
DoubledRule ==
    <<"F", "=", "F", "F">>

SpacedRules ==
    <<" ", "F", " ", "=", " ", "F", "-", "F", " ", ",", " ", "X", "=", "F",
    "X", ",", "F">>

Penrose ==
    <<"p", "e", "n", "r", "o", "s", "e">>

\* the presets called for: all but bush and seaweed, whose angle is no integer
PresetNames == {PresetKeys[k] : k \in (DOMAIN PresetKeys) \ {2, 4}}

\* the calls of the module-level functions
ConfigEntries ==
    [fn : {"from_preset"}, preset_name : PresetNames \cup {Oak, CapitalTree}]
    \cup [fn : {"get_preset_info"}, preset_name : {Absent, Given(Dragon), Given(Oak)}]
    \cup [fn : {"generate_2d", "generate_3d"},
          preset_or_axiom : {Crystal, Snowflake},
          start_point : {Absent} \cup {Given(p) : p \in StartPoints},
          iterations : {0, 1},
          custom_rules : {Absent, Given(DoubledRule)},
          custom_angle : {Absent}]
    \cup [fn : {"generate_2d", "generate_3d"},
          preset_or_axiom : {Oak, CapitalTree, <<"F">>},
          start_point : {Absent},
          iterations : {1},
          custom_rules : {Absent},
          custom_angle : {Absent, Given(90)}]
    \cup [fn : {"generate_2d", "generate_3d"},
          preset_or_axiom : {<<"F">>},
          start_point : {Absent},
          iterations : {0, 2},
          custom_rules : {Given(DoubledRule)},
          custom_angle : {Absent}]
    \cup [fn : {"generate_2d", "generate_3d"},
          preset_or_axiom : {<<"F", "-", "X">>, Oak},
          start_point : {Absent},
          iterations : {1},
          custom_rules : {Given(DoubledRule), Given(SpacedRules)},
          custom_angle : {Given(90)}]
    \cup [fn : {"generate_2d"},
          preset_or_axiom : {Penrose},
          start_point : {Absent},
          iterations : {0},
          custom_rules : {Absent},
          custom_angle : {Absent}]

\* the state when a module-level function is called: no LSystem exists yet
InitConfig ==
    /\ entry \in ConfigEntries
    /\ outcome = [raised |-> "none"]
    /\ call = entry.fn
    /\ pc = "call"
    /\ axiom = <<>>
    /\ rules = NoRules
    /\ iterations = 0
    /\ current = <<>>
    /\ next_string = <<>>
    /\ passes = 0
    /\ j = 1
    /\ angle = 0
    /\ commands = <<>>
    /\ start_point = Origin
    /\ initial_angle = DefaultInitialAngle
    /\ initial_direction = None
    /\ length \in Lengths
    /\ length_decay \in Decays
    /\ turtle = NoTurtle
    /\ NoReactionDiffusion

\* LSystem.from_preset(preset_name), called directly
FromPresetCall ==
    /\ call = "from_preset" /\ pc = "call"
    /\ LET lsystem == FromPreset(entry.preset_name)
       IN  IF lsystem.raised # "none"
           THEN /\ outcome' = [raised |-> lsystem.raised, message |-> lsystem.message]
                /\ pc' = "raised"
                /\ UNCHANGED <<axiom, rules, angle>>
           ELSE /\ axiom' = lsystem.axiom
                /\ rules' = lsystem.rules
                /\ angle' = lsystem.angle
                /\ outcome' = [raised |-> "none",
                               value |-> [axiom |-> lsystem.axiom, rules |-> lsystem.rules,
                                          angle |-> lsystem.angle]]
                /\ pc' = "returned"
    /\ UNCHANGED <<call, iterations, current, next_string, passes, j, commands,
                   start_point, initial_angle, initial_direction, length, length_decay,
                   turtle, rdVars, entry>>

\* get_preset_info(preset_name)
GetPresetInfoCall ==
    /\ call = "get_preset_info" /\ pc = "call"
    /\ outcome' = [raised |-> "none", value |-> GetPresetInfo(entry.preset_name)]
    /\ pc' = "returned"
    /\ UNCHANGED <<call, genVars, argVars, commands, turtle, rdVars, entry>>

\* generate_2d up to `commands = lsystem.generate(iterations)`
Generate2DCall ==
    /\ call = "generate_2d" /\ pc = "call"
    /\ start_point' = IF entry.start_point = Absent THEN Origin ELSE entry.start_point[1]
    /\ LET lsystem == MakeLSystem(entry.preset_or_axiom, entry.custom_rules,
                                  entry.custom_angle)
       IN  IF lsystem.raised # "none"
           THEN /\ outcome' = [raised |-> lsystem.raised, message |-> lsystem.message]
                /\ pc' = "raised"
                /\ UNCHANGED <<call, axiom, rules, angle, iterations>>
           ELSE /\ axiom' = lsystem.axiom
                /\ rules' = lsystem.rules
                /\ angle' = lsystem.angle
                /\ iterations' = entry.iterations
                /\ call' = "generate"
                /\ pc' = "call"
                /\ UNCHANGED outcome
    /\ UNCHANGED <<current, next_string, passes, j, commands, initial_angle,
                   initial_direction, length, length_decay, turtle, rdVars, entry>>

\* return lsystem.interpret_2d(commands, start_point, 90, length, length_decay):
\* the call
Generate2DInterpret ==
    /\ entry.fn = "generate_2d"
    /\ call = "generate" /\ pc = "done"
    /\ call' = "interpret_2d"
    /\ pc' = "call"
    /\ commands' = <<>>
    /\ initial_angle' = 90
    /\ UNCHANGED <<genVars, angle, start_point, initial_direction, length, length_decay,
                   turtle, rdVars, cfgVars>>

\* return lsystem.interpret_2d(...): the lines come back
Generate2DReturn ==
    /\ entry.fn = "generate_2d"
    /\ call = "interpret_2d" /\ pc = "for"
    /\ commands = current
    /\ outcome' = [raised |-> "none", value |-> turtle.lines]
    /\ pc' = "returned"
    /\ UNCHANGED <<call, genVars, argVars, commands, turtle, rdVars, entry>>

\* generate_3d up to `commands = lsystem.generate(iterations)`
Generate3DCall ==
    /\ call = "generate_3d" /\ pc = "call"
    /\ start_point' = IF entry.start_point = Absent THEN Origin ELSE entry.start_point[1]
    /\ LET lsystem == MakeLSystem(entry.preset_or_axiom, entry.custom_rules,
                                  entry.custom_angle)
       IN  IF lsystem.raised # "none"
           THEN /\ outcome' = [raised |-> lsystem.raised, message |-> lsystem.message]
                /\ pc' = "raised"
                /\ UNCHANGED <<call, axiom, rules, angle, iterations>>
           ELSE /\ axiom' = lsystem.axiom
                /\ rules' = lsystem.rules
                /\ angle' = lsystem.angle
                /\ iterations' = entry.iterations
                /\ call' = "generate"
                /\ pc' = "call"
                /\ UNCHANGED outcome
    /\ UNCHANGED <<current, next_string, passes, j, commands, initial_angle,
                   initial_direction, length, length_decay, turtle, rdVars, entry>>

\* return lsystem.interpret_3d(commands, start_point, None, length, length_decay):
\* the call
Generate3DInterpret ==
    /\ entry.fn = "generate_3d"
    /\ call = "generate" /\ pc = "done"
    /\ call' = "interpret_3d"
    /\ pc' = "call"
    /\ commands' = <<>>
    /\ initial_direction' = None
    /\ UNCHANGED <<genVars, angle, start_point, initial_angle, length, length_decay,
                   turtle, rdVars, cfgVars>>

\* return lsystem.interpret_3d(...): the lines come back
Generate3DReturn ==
    /\ entry.fn = "generate_3d"
    /\ call = "interpret_3d" /\ pc = "for"
    /\ commands = current
    /\ outcome' = [raised |-> "none", value |-> turtle.lines]
    /\ pc' = "returned"
    /\ UNCHANGED <<call, genVars, argVars, commands, turtle, rdVars, entry>>

NextConfig ==
    \/ FromPresetCall
    \/ GetPresetInfoCall
    \/ Generate2DCall
    \/ Generate3DCall
    \/ GenerateCall
    \/ GenerateBeginPass
    \/ GenerateChar
    \/ GenerateEndPass
    \/ GenerateReturn
    \/ Generate2DInterpret
    \/ Generate3DInterpret
    \/ Interpret2DCall
    \/ Interpret2DCmd
    \/ Interpret3DCall
    \/ Interpret3DCmd
    \/ Generate2DReturn
    \/ Generate3DReturn

SpecConfig == InitConfig /\ [][NextConfig]_vars

(***************************************************************************)
(* Properties of LSystem.generate                                          *)
(***************************************************************************)
\* The textbook parallel rewriting of a whole string: every symbol is
\* replaced by its rule, or kept when it has none.
RECURSIVE RewriteAll(_, _)
RewriteAll(s, r) ==
    IF s = <<>> THEN <<>>
    ELSE (IF <<Head(s)>> \in DOMAIN r THEN r[<<Head(s)>>] ELSE <<Head(s)>>)
             \o RewriteAll(Tail(s), r)

RECURSIVE Generation(_, _, _)
Generation(ax, r, n) ==
    IF n = 0 THEN ax ELSE RewriteAll(Generation(ax, r, n - 1), r)

FibWord(n) ==
    CASE n = 0 -> <<"A">>
      [] n = 1 -> <<"A", "B">>
      [] n = 2 -> <<"A", "B", "A">>
      [] n = 3 -> <<"A", "B", "A", "A", "B">>
      [] OTHER -> Generation(<<"A">>, FibRules, n)

\* C1: generate rewrites generation by generation: after k passes `current`
\* is the k-th parallel rewriting of the axiom, the string under construction
\* is the rewriting of the part of the previous generation read so far, and
\* for rules {A: AB, B: A}, axiom A the generations 1, 2, 3 are AB, ABA, ABAAB.
C1_GenerationByGeneration ==
    call = "generate" =>
        /\ pc \in {"for", "chars", "done"} => current = Generation(axiom, rules, passes)
        /\ pc = "chars" => next_string = RewriteAll(SubSeq(current, 1, j - 1), rules)
        /\ (pc = "done" /\ rules = FibRules /\ axiom = <<"A">>) => current = FibWord(iterations)

C1_Witness ==
    /\ call = "generate" /\ pc = "done"
    /\ rules = FibRules /\ axiom = <<"A">> /\ iterations = 3
    /\ current = <<"A", "B", "A", "A", "B">>

\* C2: generate(0) returns the axiom unchanged, whatever the rules are.
C2_ZeroIterationsReturnsAxiom ==
    (call = "generate" /\ pc = "done" /\ iterations = 0) => current = axiom

C2_Witness ==
    /\ call = "generate" /\ pc = "done" /\ iterations = 0
    /\ axiom # <<>> /\ <<Head(axiom)>> \in DOMAIN rules
    /\ current = axiom

\* C3: a symbol without a rule is copied unchanged to the next generation,
\* and with an empty rule map every generation equals the axiom.
C3_TerminalsPassThrough ==
    /\ [][(call = "generate" /\ pc = "chars" /\ j' = j + 1
              /\ <<current[j]>> \notin DOMAIN rules)
            => next_string' = Append(next_string, current[j])]_vars
    /\ []((call = "generate" /\ rules = NoRules /\ pc \in {"for", "chars", "done"})
            => current = axiom)

C3_Witness ==
    /\ call = "generate" /\ pc = "done"
    /\ rules = NoRules /\ axiom = <<"B", "X", "A">> /\ passes = MaxIter
    /\ current = axiom

\* C4: generate always returns, and it returns after exactly `iterations`
\* passes, also when the string is empty or no longer changes.
C4_ExactlyIterationsPasses ==
    /\ <>(call = "generate" /\ pc = "done")
    /\ [](pc = "done" => passes = iterations)

C4_Witness ==
    /\ call = "generate" /\ pc = "done"
    /\ rules = EraseRules /\ axiom = <<"A">>
    /\ iterations = MaxIter /\ passes = MaxIter /\ current = <<>>

(***************************************************************************)
(* Properties of the turtle interpreters                                   *)
(***************************************************************************)
Is2D == call = "interpret_2d"

Running == call \in {"interpret_2d", "interpret_3d"} /\ pc = "for"

\* the command alphabet of the running interpreter
Known == IF Is2D THEN {"F", "G", "f", "+", "-", "[", "]", "|"}
         ELSE {"F", "G", "f", "+", "-", "&", "^", "\\", "/", "[", "]"}

IsKnown(c) == c \in Known

Locals == IF Is2D THEN Locals2D ELSE Locals3D

Step(t, cmd) == IF Is2D THEN Step2D(t, cmd) ELSE Step3D(t, cmd)

\* the locals after interpreting the whole string cmds from the locals t
RECURSIVE Run(_, _)
Run(t, cmds) ==
    IF cmds = <<>> THEN t ELSE Run(Step(t, Head(cmds)), Tail(cmds))

Position(t) == IF Is2D THEN <<t.x, t.y, t.z>> ELSE t.position

\* the heading: the direction in 2D, the frame heading/left/up in 3D
Heading(t) == IF Is2D THEN t.direction ELSE <<t.heading, t.left, t.up>>

\* what '[' saves
Snapshot(t) ==
    IF Is2D THEN <<t.x, t.y, t.direction, t.current_length>>
    ELSE <<t.position, t.heading, t.left, t.up, t.current_length>>

\* the number of brackets open after the first n characters of s, an
\* unmatched ']' closing nothing
RECURSIVE Depth(_, _)
Depth(s, n) ==
    IF n = 0 THEN 0
    ELSE LET d == Depth(s, n - 1)
         IN  CASE s[n] = "[" -> d + 1
               [] s[n] = "]" -> IF d > 0 THEN d - 1 ELSE 0
               [] OTHER -> d

\* every '[' of s is matched by a ']'
Balanced(s) == Depth(s, Len(s)) = 0

\* no character of `chars` stands in s outside every bracket pair
NoneOutside(s, chars) ==
    \A n \in 1..Len(s) : s[n] \in chars => Depth(s, n - 1) > 0

\* the index of the '[' matched by the ']' at index n of s
MatchOpen(s, n) ==
    CHOOSE m \in 1..(n - 1) :
        /\ s[m] = "[" /\ Depth(s, m) = Depth(s, n - 1)
        /\ \A k \in (m + 1)..(n - 1) : ~(s[k] = "[" /\ Depth(s, k) = Depth(s, n - 1))

\* a step of the loop, on the command LastCmd
IsCmdStep == Running /\ pc' = "for" /\ Len(commands') = Len(commands) + 1

LastCmd == commands'[Len(commands')]

SquaredDistance(p, q) ==
    (p[1] - q[1]) * (p[1] - q[1]) + (p[2] - q[2]) * (p[2] - q[2])
        + (p[3] - q[3]) * (p[3] - q[3])

\* C5: interpret_2d on F+F+F+F with angle 90, initial heading 90, step 1 and
\* start (0,0,0) yields 4 segments of length 1, each starting where the
\* previous one ended, from (0,0,0) back to (0,0,0), around a unit square
\* (coordinates compared at the resolution 1/Scale of the model).
C5_UnitSquare ==
    (Is2D /\ pc = "for" /\ commands = Square /\ angle = 90 /\ initial_angle = 90
        /\ length = Scale /\ start_point = Origin)
    => /\ Len(turtle.lines) = 4
       /\ \A k \in 1..4 :
             SquaredDistance(turtle.lines[k][1], turtle.lines[k][2]) = Scale * Scale
       /\ \A k \in 1..3 : turtle.lines[k][2] = turtle.lines[k + 1][1]
       /\ turtle.lines[1][1] = Origin
       /\ turtle.lines[4][2] = Origin
       /\ SquaredDistance(turtle.lines[1][1], turtle.lines[2][2]) = 2 * Scale * Scale
       /\ SquaredDistance(turtle.lines[2][1], turtle.lines[3][2]) = 2 * Scale * Scale

C5_Witness ==
    /\ Is2D /\ pc = "for" /\ commands = Square /\ angle = 90 /\ initial_angle = 90
    /\ length = Scale /\ start_point = Origin
    /\ Len(turtle.lines) = 4
    /\ <<turtle.x, turtle.y, turtle.z>> = Origin

\* C6 as claimed: a string whose '[' are all matched and that has no F, G or f
\* outside a bracket pair leaves position, heading and step length as they
\* were at the start.
C6_Original ==
    (Running /\ Balanced(commands) /\ NoneOutside(commands, {"F", "G", "f"}))
    => /\ Position(turtle) = Position(Locals)
       /\ Heading(turtle) = Heading(Locals)
       /\ turtle.current_length = length

\* C6: a string whose '[' are all matched and that has neither a move (F, G, f)
\* nor a turn (+ - | in 2D; + - & ^ \ / in 3D) outside a bracket pair leaves
\* position, heading (the whole frame in 3D) and step length as they were at
\* the start.
C6_BalancedRoundTrip ==
    (Running /\ Balanced(commands) /\ NoneOutside(commands, Known \ {"[", "]"}))
    => /\ Position(turtle) = Position(Locals)
       /\ Heading(turtle) = Heading(Locals)
       /\ turtle.current_length = length
       /\ turtle.stack = <<>>

C6_Witness ==
    /\ Is2D /\ pc = "for" /\ commands = <<"[", "+", "[", "F", "]", "f", "]">>
    /\ length_decay = <<1, 2>>
    /\ Position(turtle) = start_point
    /\ turtle.direction = initial_angle
    /\ turtle.current_length = length
    /\ Len(turtle.lines) = 1

\* C7: a ']' met with an empty stack changes nothing (position, heading, left,
\* up, step length, stack, segments) and raises nothing, so the loop goes on
\* over any unbalanced string.
C7_PopOnEmptyIsNoOp ==
    /\ [][(IsCmdStep /\ LastCmd = "]" /\ turtle.stack = <<>>) => turtle' = turtle]_vars
    /\ [](Running => turtle.raised = "none")

C7_Witness ==
    /\ call = "interpret_3d" /\ pc = "for"
    /\ commands = <<"F", "]", "F">>
    /\ Len(turtle.lines) = 2
    /\ turtle.raised = "none"

\* C8: characters outside the interpreter's command alphabet are skipped: the
\* locals (segments, position, heading/frame, step length, stack) after a
\* string are those after the string with all such characters deleted.
C8_UnknownCharactersSkipped ==
    Running => /\ turtle = Run(Locals, SelectSeq(commands, IsKnown))
               /\ turtle.raised = "none"

C8_Witness ==
    /\ Is2D /\ pc = "for"
    /\ commands = <<"&", "F", "X">>
    /\ Len(turtle.lines) = 1

\* C9: F and G add one segment each, from the position before the command to
\* the position after it, at the end of the list; f moves as F does and adds
\* no segment; no other command touches the list; so the list has one segment
\* per F or G read, none for the empty string.
C9_OneSegmentPerDraw ==
    /\ [][IsCmdStep =>
            CASE LastCmd \in {"F", "G"} ->
                    turtle'.lines = Append(turtle.lines,
                                           <<Position(turtle), Position(turtle')>>)
              [] LastCmd = "f" ->
                    /\ turtle'.lines = turtle.lines
                    /\ Position(turtle') = Position(Step(turtle, "F"))
              [] OTHER -> turtle'.lines = turtle.lines]_vars
    /\ [](Running =>
            Len(turtle.lines) = Len(SelectSeq(commands, LAMBDA c : c \in {"F", "G"})))

C9_Witness ==
    /\ call = "interpret_3d" /\ pc = "for"
    /\ commands = <<"F", "f", "G">>
    /\ Len(turtle.lines) = 2
    /\ turtle.lines[1][2] # turtle.lines[2][1]
    /\ turtle.lines[2][2] = turtle.position

\* C10: '[' pushes the snapshot of the current position, heading (frame) and
\* step length and then multiplies the step length by length_decay, nothing
\* else changing; after a ']' that found the stack non-empty the locals other
\* than the segments, stack included, are those from just before the matching
\* '['.
C10_PushPopSnapshot ==
    /\ [][(IsCmdStep /\ LastCmd = "[") =>
            /\ turtle'.stack = Append(turtle.stack, Snapshot(turtle))
            /\ turtle'.current_length =
                   RoundDiv(turtle.current_length * length_decay[1], length_decay[2])
            /\ Position(turtle') = Position(turtle)
            /\ Heading(turtle') = Heading(turtle)
            /\ turtle'.lines = turtle.lines]_vars
    /\ []((Running /\ commands # <<>> /\ commands[Len(commands)] = "]"
              /\ Depth(commands, Len(commands) - 1) > 0)
            => LET before == Run(Locals, SubSeq(commands, 1,
                                     MatchOpen(commands, Len(commands)) - 1))
               IN  [turtle EXCEPT !.lines = <<>>] = [before EXCEPT !.lines = <<>>])

C10_Witness ==
    /\ call = "interpret_3d" /\ pc = "for"
    /\ commands = <<"[", "&", "[", "/", "F", "]", "f", "]">>
    /\ length_decay = <<1, 2>>
    /\ turtle.current_length = length
    /\ turtle.position = start_point
    /\ turtle.stack = <<>>

Dot(v, w) == Mul(v[1], w[1]) + Mul(v[2], w[2]) + Mul(v[3], w[3])

Abs(n) == IF n >= 0 THEN n ELSE -n

\* heading, left and up are unit vectors orthogonal to each other, up to tol
Orthonormal(t, tol) ==
    /\ Abs(Dot(t.heading, t.heading) - Scale) <= tol
    /\ Abs(Dot(t.left, t.left) - Scale) <= tol
    /\ Abs(Dot(t.up, t.up) - Scale) <= tol
    /\ Abs(Dot(t.heading, t.left)) <= tol
    /\ Abs(Dot(t.heading, t.up)) <= tol
    /\ Abs(Dot(t.left, t.up)) <= tol

\* the tolerance of a comparison of floats: one percent
Tolerance == Scale \div 100

\* C11: in interpret_3d, when the initial heading, left and up are orthonormal,
\* heading, left and up are orthonormal (within Tolerance) after every command,
\* and so is every frame saved on the stack.
C11_FrameStaysOrthonormal ==
    (call = "interpret_3d" /\ pc = "for" /\ Orthonormal(Locals3D, 0))
    => /\ Orthonormal(turtle, Tolerance)
       /\ \A k \in 1..Len(turtle.stack) :
             Orthonormal([heading |-> turtle.stack[k][2], left |-> turtle.stack[k][3],
                          up |-> turtle.stack[k][4]], Tolerance)

C11_Witness ==
    /\ call = "interpret_3d" /\ pc = "for" /\ angle = 60
    /\ Orthonormal(Locals3D, 0)
    /\ commands = <<"+", "&", "\\">>
    /\ turtle.heading # Locals3D.heading
    /\ turtle.left # Locals3D.left
    /\ turtle.up # Locals3D.up
    /\ Orthonormal(turtle, Tolerance)

\* the vector product v x w
Cross(v, w) ==
    <<Mul(v[2], w[3]) - Mul(v[3], w[2]),
      Mul(v[3], w[1]) - Mul(v[1], w[3]),
      Mul(v[1], w[2]) - Mul(v[2], w[1])>>

\* the vectors v and w agree within tol in every coordinate
Near(v, w, tol) == \A k \in 1..3 : Abs(v[k] - w[k]) <= tol

\* C18: with the default initial heading (0,0,1) the frame of interpret_3d is
\* right-handed, heading x left = up, at the start and after every command.
C18_RightHandedFrame ==
    (call = "interpret_3d" /\ pc = "for" /\ initial_direction = None)
    => Near(Cross(turtle.heading, turtle.left), turtle.up, Tolerance)

\* the frame vectors of the 3D locals t
Frame(t) == <<t.heading, t.left, t.up>>

\* the frames f and g agree within tol in every coordinate
NearFrame(f, g, tol) == \A k \in 1..3 : Near(f[k], g[k], tol)

\* the command that undoes the rotation command c
Opposite(c) ==
    CASE c = "+" -> "-"
      [] c = "-" -> "+"
      [] c = "&" -> "^"
      [] c = "^" -> "&"
      [] c = "\\" -> "/"
      [] c = "/" -> "\\"

Rotations == {"+", "-", "&", "^", "\\", "/"}

\* the angle the rotation command c turns by
Signed(c) == IF c \in {"-", "^", "\\"} THEN angle_rad ELSE -angle_rad

\* C19: in interpret_3d, + and - turn heading and left about up, & and ^ turn
\* heading and up about left, \ and / turn left and up about heading, the
\* first of each pair by -angle and the second by +angle (\ by +angle, / by
\* -angle); the axis, position, step length, stack and segments do not
\* change; and a rotation followed by its opposite gives back the frame
\* (within Tolerance).
C19_RotationsFrame ==
    /\ [][(IsCmdStep /\ ~Is2D /\ LastCmd \in Rotations) =>
            LET a == Signed(LastCmd)
                t == turtle
            IN  /\ LastCmd \in {"+", "-"} =>
                      turtle' = [t EXCEPT !.heading = RotateVector(t.heading, t.up, a),
                                          !.left = RotateVector(t.left, t.up, a)]
                /\ LastCmd \in {"&", "^"} =>
                      turtle' = [t EXCEPT !.heading = RotateVector(t.heading, t.left, a),
                                          !.up = RotateVector(t.up, t.left, a)]
                /\ LastCmd \in {"\\", "/"} =>
                      turtle' = [t EXCEPT !.left = RotateVector(t.left, t.heading, a),
                                          !.up = RotateVector(t.up, t.heading, a)]]_vars
    /\ []((call = "interpret_3d" /\ pc = "for") =>
            \A c \in Rotations :
                NearFrame(Frame(Step3D(Step3D(turtle, c), Opposite(c))),
                          Frame(turtle), Tolerance))

C19_Witness ==
    /\ call = "interpret_3d" /\ pc = "for" /\ angle = 60
    /\ commands = <<"&", "\\", "/">>
    /\ turtle.up # Locals3D.up
    /\ NearFrame(Frame(turtle), Frame(Step3D(Locals3D, "&")), Tolerance)

\* length * length_decay^n, as the n-fold product
RECURSIVE Decayed(_, _)
Decayed(l, n) ==
    IF n = 0 THEN l ELSE RoundDiv(Decayed(l, n - 1) * length_decay[1], length_decay[2])

\* C20: at every point of interpret_2d and interpret_3d the stack depth is the
\* number of '[' read minus the number of ']' that found the stack non-empty
\* (Depth), the step length is length * length_decay^depth, and the snapshot
\* at index i of the stack, counted from 0, holds length * length_decay^i.
C20_StepLengthFollowsDepth ==
    Running =>
        /\ Len(turtle.stack) = Depth(commands, Len(commands))
        /\ turtle.current_length = Decayed(length, Len(turtle.stack))
        /\ \A i \in 1..Len(turtle.stack) :
              turtle.stack[i][Len(turtle.stack[i])] = Decayed(length, i - 1)

C20_Witness ==
    /\ call = "interpret_3d" /\ pc = "for"
    /\ length_decay = <<1, 2>>
    /\ commands = <<"[", "&", "[", "/", "F", "]">>
    /\ Len(turtle.stack) = 1
    /\ turtle.current_length = Scale \div 2

(***************************************************************************)
(* Properties of reaction_diffusion                                        *)
(***************************************************************************)
InRD == call = "reaction_diffusion" /\ pc \notin {"idle"}

\* every cell of the grid is a concentration in [0, 1]
InUnitInterval(grid) ==
    \A row \in DOMAIN grid : \A col \in DOMAIN grid[row] :
        0 <= grid[row][col] /\ grid[row][col] <= Scale

\* C12: every cell of A and of B lies in [0,1], from the initialisation on
\* and after every iteration, whatever the rates.
C12_ConcentrationsClamped ==
    InRD => InUnitInterval(A) /\ InUnitInterval(B)

C12_Witness ==
    /\ call = "reaction_diffusion" /\ pc = "cells" /\ loop.step = 1
    /\ rd_args.feed_rate < 0
    /\ loop.y = rd_args.height
    /\ \E y \in DOMAIN B : \E x \in DOMAIN B[y] : NextB(x, y) > Scale /\ newB[y][x] = Scale
    /\ \E y \in DOMAIN A : \E x \in DOMAIN A[y] : NextA(x, y) < 0 /\ newA[y][x] = 0

\* the discrete Laplacian on the torus: the four neighbours, indices taken
\* modulo the height and the width, minus four times the centre
TorusLaplacian(grid, x, y) ==
    grid[(y - 1) % rd_args.height][x] + grid[(y + 1) % rd_args.height][x]
        + grid[y][(x - 1) % rd_args.width] + grid[y][(x + 1) % rd_args.width]
        - 4 * grid[y][x]

Min(a, b) == IF a <= b THEN a ELSE b

Max(a, b) == IF a >= b THEN a ELSE b

\* clamp01(A + dt*(Da*lap(A) - A*B*B + feed*(1-A))) on the grids gA, gB
GrayScottA(gA, gB, x, y) ==
    LET a == gA[y][x]
        b == gB[y][x]
    IN  Max(0, Min(Scale,
            a + Mul(dt, Mul(dA, TorusLaplacian(gA, x, y)) - Mul(Mul(a, b), b)
                          + Mul(rd_args.feed_rate, Scale - a))))

\* clamp01(B + dt*(Db*lap(B) + A*B*B - (kill+feed)*B)) on the grids gA, gB
GrayScottB(gA, gB, x, y) ==
    LET a == gA[y][x]
        b == gB[y][x]
    IN  Max(0, Min(Scale,
            b + Mul(dt, Mul(dB, TorusLaplacian(gB, x, y)) + Mul(Mul(a, b), b)
                          - Mul(rd_args.kill_rate + rd_args.feed_rate, b))))

\* C13: a step is a synchronous update: the visit of a cell writes into newA
\* and newB the clamped Gray-Scott values computed on A and B, the grids of
\* the previous step, with the Laplacian on the torus, and changes neither A
\* nor B nor another cell; A and B are replaced together by newA and newB at
\* the end of the step.
C13_SynchronousUpdate ==
    /\ [][(call = "reaction_diffusion" /\ pc = "cells" /\ pc' = "cells") =>
            /\ newA' = [newA EXCEPT ![loop.y][loop.x] = GrayScottA(A, B, loop.x, loop.y)]
            /\ newB' = [newB EXCEPT ![loop.y][loop.x] = GrayScottB(A, B, loop.x, loop.y)]
            /\ A' = A /\ B' = B]_vars
    /\ [][(call = "reaction_diffusion" /\ pc = "cells" /\ pc' = "for") =>
            /\ A' = newA /\ B' = newB
            /\ \A y \in DOMAIN A : \A x \in DOMAIN A[y] :
                  /\ A'[y][x] = GrayScottA(A, B, x, y)
                  /\ B'[y][x] = GrayScottB(A, B, x, y)]_vars

C13_Witness ==
    /\ call = "reaction_diffusion" /\ pc = "for" /\ loop.step = MaxSteps
    /\ \E x \in DOMAIN B[0] : B[0][x] # 0 /\ B[rd_args.height - 1][x] # 0

\* C14: reaction_diffusion never raises: for every positive width and height,
\* also below 20 or below 7, it seeds its blocks, runs its steps and returns.
C14_NeverRaises ==
    call = "reaction_diffusion" =>
        /\ pc # "raised"
        /\ \A k \in 1..Len(returned) : returned[k].raised = "none"

\* C15: two calls with the same width, height, iterations, feed_rate,
\* kill_rate and seed have the same outcome, whatever state the generator was
\* in and whatever was called before.
C15_SameArgumentsSameGrid ==
    \A m, n \in 1..Len(returned) :
        returned[m].args = returned[n].args => returned[m] = returned[n]

C15_Witness ==
    /\ call = "reaction_diffusion" /\ pc = "done" /\ Len(returned) = 2
    /\ returned[1].args = returned[2].args
    /\ returned[1].args.iterations = 1
    /\ returned[1].raised = "none"
    /\ returned[1].result = returned[2].result

\* the grid has `height` rows of `width` cells
HasDimensions(grid) ==
    /\ DOMAIN grid = 0..(rd_args.height - 1)
    /\ \A row \in DOMAIN grid : DOMAIN grid[row] = 0..(rd_args.width - 1)

\* C16: at every step A and B, and the grids newA and newB of a step under
\* way, have `height` rows of `width` cells, and so has the grid returned.
C16_DimensionsInvariant ==
    InRD =>
        /\ HasDimensions(A) /\ HasDimensions(B)
        /\ pc = "cells" => HasDimensions(newA) /\ HasDimensions(newB)
        /\ pc = "done" => HasDimensions(returned[Len(returned)].result)

C16_Witness ==
    /\ call = "reaction_diffusion" /\ pc = "done"
    /\ rd_args.iterations = MaxSteps
    /\ rd_args.width # rd_args.height
    /\ HasDimensions(returned[Len(returned)].result)

(***************************************************************************)
(* Properties of the module-level functions                                *)
(***************************************************************************)
\* name occurs in msg
Contains(msg, name) ==
    \E i \in 1..(Len(msg) - Len(name) + 1) : SubSeq(msg, i, i + Len(name) - 1) = name

\* msg names every key of PRESETS
CarriesOptions(msg) == \A k \in DOMAIN PresetKeys : Contains(msg, PresetKeys[k])

\* the function called has taken its first step
Entered == entry.fn # "none" /\ ~(call = entry.fn /\ pc = "call")

UnknownToFromPreset ==
    entry.fn = "from_preset" /\ entry.preset_name \notin DOMAIN PRESETS

UnknownToGetPresetInfo ==
    /\ entry.fn = "get_preset_info"
    /\ entry.preset_name # Absent
    /\ entry.preset_name[1] \notin DOMAIN PRESETS

MissingCustomRules ==
    /\ entry.fn \in {"generate_2d", "generate_3d"}
    /\ entry.preset_or_axiom \notin DOMAIN PRESETS
    /\ entry.custom_rules = Absent

\* no LSystem was made, nothing was expanded, nothing was interpreted
NoWorkDone ==
    /\ call = entry.fn
    /\ axiom = <<>> /\ rules = NoRules
    /\ current = <<>> /\ next_string = <<>> /\ passes = 0
    /\ commands = <<>> /\ turtle = NoTurtle

\* the call ended in a ValueError and returned nothing
Rejected ==
    /\ outcome.raised = "ValueError"
    /\ pc = "raised"
    /\ "value" \notin DOMAIN outcome
    /\ NoWorkDone

\* C17 as stated: an unknown preset name, or missing custom rules when no
\* preset is selected, is rejected with a ValueError that carries the list of
\* valid options, and nothing is expanded, interpreted or returned.
C17_Original ==
    (Entered /\ (UnknownToFromPreset \/ UnknownToGetPresetInfo \/ MissingCustomRules))
        => (Rejected /\ CarriesOptions(outcome.message))

\* C17, amended: LSystem.from_preset rejects an unknown preset name with a
\* ValueError whose message lists every preset name; generate_2d and
\* generate_3d reject a name that is no preset, given without custom rules,
\* with a ValueError whose message is "Custom rules required when not using a
\* preset" and lists no option; in both cases the rejection is the first
\* thing the call does: no LSystem is made, nothing is expanded or
\* interpreted and nothing is returned.  get_preset_info does not raise for
\* an unknown name: it returns a dictionary with the single key "error".
\* Nothing else is rejected.
C17_ConfigErrorsRejected ==
    /\ (Entered /\ UnknownToFromPreset)
           => (Rejected /\ CarriesOptions(outcome.message))
    /\ (Entered /\ MissingCustomRules)
           => (Rejected /\ outcome.message = CustomRulesRequired
                        /\ ~CarriesOptions(outcome.message))
    /\ (Entered /\ UnknownToGetPresetInfo)
           => (outcome.raised = "none" /\ DOMAIN outcome.value = {ErrorKey})
    /\ (outcome.raised # "none") => (Rejected /\ (UnknownToFromPreset \/ MissingCustomRules))

\* generate_2d has rejected "Tree", given without custom rules
C17_Witness ==
    /\ entry.fn = "generate_2d"
    /\ entry.preset_or_axiom = CapitalTree
    /\ entry.custom_rules = Absent
    /\ outcome.raised = "ValueError"
    /\ pc = "raised"

\* C21: every rule that reaches LSystem.generate, from PRESETS or parsed from
\* a custom rule string by generate_2d / generate_3d, has a key of exactly
\* one character, so that the per-character rewrite can apply it.
C21_SingleSymbolKeys ==
    (entry.fn \in {"generate_2d", "generate_3d"} /\ call = "generate")
        => \A key \in DOMAIN rules : Len(key) = 1

====
